---- MODULE Spec2Model ----
(***************************************************************************)
(* The change-detection poller of src/scheduler.py: ScheduleChecker and    *)
(* the polling loop of main().                                             *)
(*                                                                         *)
(* One asyncio event loop runs main() and, inside every cycle, one task    *)
(* per configured URL (asyncio.gather over has_file_changed).  The only    *)
(* suspension point of a task is the HTTP GET of download_file; everything *)
(* has_file_changed does after the GET returns runs without yielding, so   *)
(* the completion of a task is one atomic step of the model.               *)
(***************************************************************************)
EXTENDS Integers, Sequences, FiniteSets

\* ------------------------------------------------------------------ bounds

\* Number of polling cycles the model lets main() start.
MaxCycles == 2

\* Distinct non-empty payloads a server can answer with (1..MaxBody).
MaxBody == 3

\* ------------------------------------------------------- program constants

\* last_checksums[url] before the first observation (Python None).
None == -1

\* The empty byte string b"", the failure value of download_file.
Empty == 0

\* A URL is the sequence of the "/"-separated segments of its path (scheme
\* and host, the same in all of them, are left out), a segment the sequence
\* of its pieces.
spo == <<<<"spo", ".pdf">>>>
npo == <<<<"npo", ".pdf">>>>

\* The URLs main() configures: "https://rasp.vksit.ru/spo.pdf" and
\* "https://rasp.vksit.ru/npo.pdf".
schedule_urls == <<spo, npo>>

\* The URL lists a ScheduleChecker is constructed with.
UrlLists == {schedule_urls}

\* Payloads: Empty and the non-empty byte strings 1..MaxBody.
Bodies == 0..MaxBody

\* MD5 maps byte strings of any length onto a digest of fixed width, so
\* distinct payloads can share a digest.  The model keeps that: MaxBody
\* non-empty payloads are mapped onto MaxBody - 1 digests.
calculate_checksum(data) == data % (MaxBody - 1)

Digests == {calculate_checksum(d) : d \in Bodies}

\* ------------------------------------------------------------ the network

\* Response statuses: 2xx, a 3xx that aiohttp hands back to the caller (no
\* redirect to follow), and an error status.
Statuses == {200, 300, 404}

\* Failures of the GET that produce no response.  "dns" and "conn" are
\* aiohttp.ClientConnectorError; "timeout" is the expiry of the total
\* timeout=10, which aiohttp raises as asyncio.TimeoutError.
NetErrors == {"dns", "conn", "timeout"}

\* Everything one GET can end with.
Fetches ==
    {[kind |-> "response", status |-> s, body |-> b] :
        s \in {t \in Statuses : t < 400}, b \in Bodies}
    \cup {[kind |-> "response", status |-> s, body |-> Empty] :
        s \in {t \in Statuses : t >= 400}}
    \cup {[kind |-> k, status |-> 0, body |-> Empty] : k \in NetErrors}

\* A response whose status is in the success range 200..299.
Is2xx(f) == f.kind = "response" /\ f.status \in 200..299

\* response.raise_for_status(): raises ClientResponseError for 400 and above.
raise_for_status(status) == status >= 400

\* The exceptions `except aiohttp.ClientError` catches: connection and DNS
\* errors and the ClientResponseError of raise_for_status.  asyncio.TimeoutError
\* is not an aiohttp.ClientError.
IsClientError(f) ==
    \/ f.kind \in {"dns", "conn"}
    \/ f.kind = "response" /\ raise_for_status(f.status)

\* download_file: the bytes it returns, or the exception that leaves it.
download_file(f) ==
    IF IsClientError(f) THEN [raised |-> FALSE, data |-> Empty]
    ELSE IF f.kind = "response" THEN [raised |-> FALSE, data |-> f.body]
    ELSE [raised |-> TRUE, data |-> Empty]

\* has_file_changed without the branch for a checksum that is still None:
\* the first content is compared with None and reported as a change.
has_file_changed_no_baseline(last, file_data) ==
    IF file_data = Empty
    THEN [outcome |-> "NotLoaded", ret |-> FALSE, checksum |-> last, save |-> FALSE]
    ELSE LET current_checksum == calculate_checksum(file_data) IN
         IF current_checksum # last
         THEN [outcome |-> "Changed", ret |-> TRUE,
               checksum |-> current_checksum, save |-> TRUE]
         ELSE [outcome |-> "Unchanged", ret |-> FALSE,
               checksum |-> last, save |-> FALSE]

\* has_file_changed that reports a change without storing the new checksum.
has_file_changed_stale(last, file_data) ==
    IF file_data = Empty
    THEN [outcome |-> "NotLoaded", ret |-> FALSE, checksum |-> last, save |-> FALSE]
    ELSE LET current_checksum == calculate_checksum(file_data) IN
         IF last = None
         THEN [outcome |-> "FirstSeen", ret |-> FALSE,
               checksum |-> current_checksum, save |-> TRUE]
         ELSE IF current_checksum # last
         THEN [outcome |-> "Changed", ret |-> TRUE,
               checksum |-> last, save |-> TRUE]
         ELSE [outcome |-> "Unchanged", ret |-> FALSE,
               checksum |-> last, save |-> FALSE]

\* has_file_changed that saves every non-empty download, changed or not.
has_file_changed_always_saves(last, file_data) ==
    IF file_data = Empty
    THEN [outcome |-> "NotLoaded", ret |-> FALSE, checksum |-> last, save |-> FALSE]
    ELSE LET current_checksum == calculate_checksum(file_data) IN
         IF last = None
         THEN [outcome |-> "FirstSeen", ret |-> FALSE,
               checksum |-> current_checksum, save |-> TRUE]
         ELSE IF current_checksum # last
         THEN [outcome |-> "Changed", ret |-> TRUE,
               checksum |-> current_checksum, save |-> TRUE]
         ELSE [outcome |-> "Unchanged", ret |-> FALSE,
               checksum |-> last, save |-> TRUE]

\* has_file_changed after download_file returned file_data, given the stored
\* checksum `last` of the URL: the log line it prints (outcome), the value it
\* returns, the checksum it leaves stored and whether it calls save_file.
has_file_changed(last, file_data) ==
    IF file_data = Empty
    THEN [outcome |-> "NotLoaded", ret |-> FALSE, checksum |-> last, save |-> FALSE]
    ELSE LET current_checksum == calculate_checksum(file_data) IN
         IF last = None
         THEN [outcome |-> "FirstSeen", ret |-> FALSE,
               checksum |-> current_checksum, save |-> TRUE]
         ELSE IF current_checksum # last
         THEN [outcome |-> "Changed", ret |-> TRUE,
               checksum |-> current_checksum, save |-> TRUE]
         ELSE [outcome |-> "Unchanged", ret |-> FALSE,
               checksum |-> last, save |-> FALSE]

\* save_file that keeps the artifact a URL already has and writes only the
\* first one.
save_file_first_only(files, data, url) ==
    IF files[url].n > 0 THEN files ELSE [files EXCEPT ![url] = [n |-> 1, data |-> data]]

\* save_file: one more artifact of url, holding data (open and write succeed).
save_file(files, data, url) == [files EXCEPT ![url] = [n |-> @.n + 1, data |-> data]]

\* Number of artifacts written so far, over all URLs.
RECURSIVE Total(_, _)
Total(files, us) ==
    IF us = {} THEN 0
    ELSE LET u == CHOOSE x \in us : TRUE IN files[u].n + Total(files, us \ {u})

\* all(results) in the place of any(results).
AllResults(results, n) == \A i \in 1..n : results[i]

\* any(results) of check_all_files.
AnyResult(results, n) == \E i \in 1..n : results[i]

\* ---------------------------------------------------------- artifact names

\* url.split("/")[-1]: the last path segment of the URL.
last_segment(url) == url[Len(url)]

\* .replace('.pdf', ''): the segment without any ".pdf" in it.
strip_pdf(segment) == SelectSeq(segment, LAMBDA piece : piece # ".pdf")

\* os.path.join(download_folder, f"{filename}_{timestamp}.pdf"), with the
\* timestamp of datetime.now() in whole seconds.
file_path(url, seconds) == [base |-> strip_pdf(last_segment(url)), time |-> seconds]

\* open(file_path, "wb") and write: the file of that name is created or
\* replaced; the directory remembers which evaluation wrote it.
write_file(dir, name, url, c) ==
    {x \in dir : x.name # name} \cup {[name |-> name, url |-> url, cycle |-> c]}

\* asyncio.sleep(30).
SleepSeconds == 30

\* The list comprehension of check_all_files binding every task to the last
\* URL of the list.
tasks_for_last(us) == [i \in 1..Len(us) |-> us[Len(us)]]

\* [self.has_file_changed(url) for url in self.urls]: the URL of every task.
tasks_for(us) == [i \in 1..Len(us) |-> us[i]]

\* {url: None for url in urls}: one entry per distinct URL.
Keys(us) == {us[i] : i \in 1..Len(us)}

\* ------------------------------------------------------------------ state

VARIABLES
    urls,            \* self.urls
    last_checksums,  \* self.last_checksums
    saved,           \* per URL: the number of artifacts written, the newest one's content
    pc,              \* where main() is: "idle", "gather", "sleep", "crashed"
    cycle,           \* number of check_all_files calls so far
    task,            \* per index of urls: state of the has_file_changed task
    result,          \* per index: the value the task returned
    outcome,         \* per index: the log line of the task in this cycle
    got,             \* per index: the body a 2xx response gave the task, else None
    agg,             \* the summary line check_all_files printed last
    aggCycle,        \* the cycle that summary belongs to
    ev,              \* the evaluation that finished last in this cycle, and the state before it
    prev,            \* per URL: the bodies its earlier fetches delivered
    last,            \* the cycle before this one, as it ended
    now,             \* the local wall clock, in seconds
    files,           \* the files of download_folder: name and the evaluation that wrote it
    turl,            \* per index: the URL the task was created for
    snap,            \* per index: the checksum stored for that URL when the task was created
    gets,            \* per index: the GETs the task has issued in this cycle
    sets,            \* per URL: how often last_checksums[url] was assigned
    firsts           \* per URL: how many evaluations printed "initialised"

vars == <<urls, last_checksums, saved, pc, cycle, task, result, outcome, got,
          agg, aggCycle, ev, prev, last, now, files, turl, snap, gets, sets, firsts>>

N == Len(urls)
Tasks == 1..N
Tracked == {urls[i] : i \in Tasks}

NoFetch == [kind |-> "none", status |-> 0, body |-> Empty]

\* No file of that name was there.
NoFile == [name |-> <<>>, url |-> <<>>, cycle |-> 0]

\* No evaluation has finished in this cycle.
NoEv == [i |-> 0, url |-> <<>>, fetch |-> NoFetch, raised |-> FALSE, data |-> Empty,
         outcome |-> "none", ret |-> FALSE, before |-> <<>>, savedBefore |-> <<>>,
         prevBody |-> None, prevData |-> None, over |-> NoFile]

\* No cycle has ended yet.
NoCycle == [outcome |-> <<>>, got |-> <<>>, agg |-> "none", nsaved |-> 0, joined |-> FALSE]

\* ScheduleChecker.__init__ for one of the URL lists, followed by the entry
\* of main()'s loop.
InitWith(lists) ==
    /\ urls \in lists
    /\ last_checksums = [u \in Keys(urls) |-> None]
    /\ saved = [u \in Keys(urls) |-> [n |-> 0, data |-> Empty]]
    /\ pc = "idle"
    /\ cycle = 0
    /\ task = [i \in 1..Len(urls) |-> "none"]
    /\ result = [i \in 1..Len(urls) |-> FALSE]
    /\ outcome = [i \in 1..Len(urls) |-> "none"]
    /\ got = [i \in 1..Len(urls) |-> None]
    /\ agg = "none"
    /\ aggCycle = 0
    /\ ev = NoEv
    /\ prev = [u \in Keys(urls) |-> [body |-> None, data |-> None]]
    /\ last = NoCycle
    /\ now = 0
    /\ files = {}
    /\ turl = tasks_for(urls)
    /\ snap = [i \in 1..Len(urls) |-> None]
    /\ gets = [i \in 1..Len(urls) |-> 0]
    /\ sets = [u \in Keys(urls) |-> 0]
    /\ firsts = [u \in Keys(urls) |-> 0]

\* The program as main() constructs it.
Init == InitWith(UrlLists)

\* check_all_files up to the await of gather, entered while main() is at one
\* of the places pcs: one task per entry of self.urls.
FanOut(pcs) ==
    /\ pc \in pcs
    /\ cycle < MaxCycles
    /\ pc' = "gather"
    /\ cycle' = cycle + 1
    /\ task' = [i \in Tasks |-> "pending"]
    /\ result' = [i \in Tasks |-> FALSE]
    /\ outcome' = [i \in Tasks |-> "none"]
    /\ got' = [i \in Tasks |-> None]
    /\ last' = [outcome |-> outcome, got |-> got, agg |-> agg,
                nsaved |-> Total(saved, Tracked), joined |-> aggCycle = cycle /\ cycle > 0]
    /\ ev' = NoEv
    /\ turl' = tasks_for(urls)
    /\ snap' = [i \in Tasks |-> last_checksums[turl'[i]]]
    /\ gets' = [i \in Tasks |-> 0]
    /\ UNCHANGED <<urls, last_checksums, saved, agg, aggCycle, prev, now, files,
                   sets, firsts>>

\* A poller driven by a timer instead of the loop of main(): the next cycle
\* is started every interval, whether or not the previous gather has returned.
StartCycle_timer == FanOut({"idle", "gather"})

\* check_all_files is called from the loop of main().
StartCycle == FanOut({"idle"})

\* self.last_checksums.get(url) read when the task was created, before the
\* await of download_file.
last_checksum_early(i) == snap[i]

\* last_checksum = self.last_checksums.get(url), read after download_file
\* has returned.
last_checksum(i) == last_checksums[turl[i]]

\* An assignment that rebuilds the dictionary with the one entry.
set_checksum_rebuild(checksums, url, c) ==
    [u \in DOMAIN checksums |-> IF u = url THEN c ELSE None]

\* self.last_checksums[url] = current_checksum.
set_checksum(checksums, url, c) == [checksums EXCEPT ![url] = c]

\* The GET of task i ends with f and has_file_changed runs to its end.
Evaluate(i, f) ==
    LET url == turl[i]
        dl == download_file(f)
        r == has_file_changed(last_checksum(i), dl.data)
        name == file_path(url, now)
        assigned == r.outcome \in {"FirstSeen", "Changed"}
    IN
    /\ pc = "gather"
    /\ task[i] = "pending"
    /\ got' = [got EXCEPT ![i] = IF Is2xx(f) THEN f.body ELSE None]
    /\ gets' = [gets EXCEPT ![i] = @ + 1]
    /\ ev' = [i |-> i, url |-> url, fetch |-> f, raised |-> dl.raised, data |-> dl.data,
              outcome |-> IF dl.raised THEN "Raised" ELSE r.outcome,
              ret |-> ~dl.raised /\ r.ret,
              before |-> last_checksums, savedBefore |-> saved,
              prevBody |-> prev[url].body, prevData |-> prev[url].data,
              over |-> IF ~dl.raised /\ r.save /\ \E x \in files : x.name = name
                       THEN CHOOSE x \in files : x.name = name
                       ELSE NoFile]
    /\ IF dl.raised
       THEN /\ task' = [task EXCEPT ![i] = "raised"]
            /\ outcome' = [outcome EXCEPT ![i] = "Raised"]
            /\ UNCHANGED <<last_checksums, saved, result, prev, files, sets, firsts>>
       ELSE /\ task' = [task EXCEPT ![i] = "done"]
            /\ outcome' = [outcome EXCEPT ![i] = r.outcome]
            /\ result' = [result EXCEPT ![i] = r.ret]
            /\ last_checksums' = IF assigned
                                 THEN set_checksum(last_checksums, url, r.checksum)
                                 ELSE last_checksums
            /\ sets' = [sets EXCEPT ![url] = IF assigned THEN @ + 1 ELSE @]
            /\ firsts' = [firsts EXCEPT ![url] = IF r.outcome = "FirstSeen" THEN @ + 1 ELSE @]
            /\ saved' = IF r.save THEN save_file(saved, dl.data, url) ELSE saved
            /\ files' = IF r.save THEN write_file(files, name, url, cycle) ELSE files
            /\ prev' = [prev EXCEPT ![url] =
                          [body |-> IF f.kind = "response" /\ ~raise_for_status(f.status)
                                    THEN f.body ELSE @.body,
                           data |-> IF dl.data # Empty THEN dl.data ELSE @.data]]
    /\ UNCHANGED <<urls, pc, cycle, agg, aggCycle, last, now, turl, snap>>

\* A join that returns with the first task that returns (FIRST_COMPLETED).
GatherFirstCompleted == \E i \in Tasks : task[i] = "done"

\* asyncio.gather without return_exceptions: it returns once every task has
\* returned.
GatherDone == \A i \in Tasks : task[i] = "done"

\* asyncio.gather without return_exceptions: the first exception of a task
\* is raised in the awaiting caller.
GatherRaises == \E i \in Tasks : task[i] = "raised"

\* check_all_files after gather: the summary line.
Summary(results, n) == IF AnyResult(results, n) THEN "updated" ELSE "nochange"

Join ==
    /\ pc = "gather"
    /\ GatherDone
    /\ agg' = Summary(result, N)
    /\ aggCycle' = cycle
    /\ pc' = "sleep"
    /\ UNCHANGED <<urls, last_checksums, saved, cycle, task, result, outcome, got,
                   ev, prev, last, now, files, turl, snap, gets, sets, firsts>>

\* The exception gather raised leaves check_all_files and main(); asyncio.run
\* cancels the tasks still waiting for their GET and returns.
Abort ==
    /\ pc = "gather"
    /\ GatherRaises
    /\ pc' = "crashed"
    /\ task' = [i \in Tasks |-> IF task[i] = "pending" THEN "cancelled" ELSE task[i]]
    /\ UNCHANGED <<urls, last_checksums, saved, cycle, result, outcome, got,
                   agg, aggCycle, ev, prev, last, now, files, turl, snap, gets,
                   sets, firsts>>

\* asyncio.sleep(30) returns and the while loop comes round.
Wake ==
    /\ pc = "sleep"
    /\ pc' = "idle"
    /\ now' = now + SleepSeconds
    /\ UNCHANGED <<urls, last_checksums, saved, cycle, task, result, outcome, got,
                   agg, aggCycle, ev, prev, last, files, turl, snap, gets, sets, firsts>>

\* Some task of the cycle is resumed with the outcome of its GET.
RunTask == \E i \in Tasks, f \in Fetches : Evaluate(i, f)

Next ==
    \/ StartCycle
    \/ RunTask
    \/ Join
    \/ Abort
    \/ Wake

Spec == Init /\ [][Next]_vars

TypeOK ==
    /\ last_checksums \in [Tracked -> Digests \cup {None}]
    /\ pc \in {"idle", "gather", "sleep", "crashed"}
    /\ cycle \in 0..MaxCycles
    /\ task \in [Tasks -> {"none", "pending", "done", "raised", "cancelled"}]
    /\ result \in [Tasks -> BOOLEAN]
    /\ agg \in {"none", "updated", "nochange"}
    /\ aggCycle \in 0..MaxCycles
    /\ now \in 0..(MaxCycles * SleepSeconds)
    /\ turl = tasks_for(urls)
    /\ snap \in [Tasks -> Digests \cup {None}]
    /\ gets \in [Tasks -> 0..1]
    /\ sets \in [Tracked -> 0..(N * MaxCycles)]
    /\ firsts \in [Tracked -> 0..1]
    /\ \A x \in files : x.url \in Tracked /\ x.cycle \in 1..MaxCycles

\* ------------------------------------------------------------ other lists

\* Two URLs of one host whose last segment is the same:
\* "https://rasp.vksit.ru/day/spo.pdf" and "https://rasp.vksit.ru/eve/spo.pdf".
day_spo == <<<<"day">>, <<"spo", ".pdf">>>>
eve_spo == <<<<"eve">>, <<"spo", ".pdf">>>>

\* Lists ScheduleChecker accepts as well: __init__ takes any List[str], with
\* a URL given twice or with URLs that differ only in their directory.
OtherUrlLists == {<<spo, spo>>, <<day_spo, eve_spo>>}

InitLists == InitWith(OtherUrlLists)

\* The loop of main() over a ScheduleChecker built from one of those lists.
SpecLists == InitLists /\ [][Next]_vars

\* ------------------------------------------------------------ environment

\* The GET of task i ends with f, has_file_changed assigns the checksum and
\* save_file then raises OSError (folder not writable, disk full): the
\* assignment is kept, the file is missing, or created and incomplete, and
\* the exception leaves has_file_changed.
SaveFails(i, f, created) ==
    LET url == turl[i]
        dl == download_file(f)
        r == has_file_changed(last_checksum(i), dl.data)
        name == file_path(url, now)
    IN
    /\ pc = "gather"
    /\ task[i] = "pending"
    /\ ~dl.raised
    /\ r.save
    /\ got' = [got EXCEPT ![i] = IF Is2xx(f) THEN f.body ELSE None]
    /\ gets' = [gets EXCEPT ![i] = @ + 1]
    /\ ev' = [i |-> i, url |-> url, fetch |-> f, raised |-> FALSE, data |-> dl.data,
              outcome |-> "SaveRaised", ret |-> FALSE,
              before |-> last_checksums, savedBefore |-> saved,
              prevBody |-> prev[url].body, prevData |-> prev[url].data,
              over |-> IF created /\ \E x \in files : x.name = name
                       THEN CHOOSE x \in files : x.name = name
                       ELSE NoFile]
    /\ task' = [task EXCEPT ![i] = "raised"]
    /\ outcome' = [outcome EXCEPT ![i] = "SaveRaised"]
    /\ last_checksums' = set_checksum(last_checksums, url, r.checksum)
    /\ sets' = [sets EXCEPT ![url] = @ + 1]
    /\ firsts' = [firsts EXCEPT ![url] = IF r.outcome = "FirstSeen" THEN @ + 1 ELSE @]
    /\ files' = IF created THEN write_file(files, name, url, cycle) ELSE files
    /\ prev' = [prev EXCEPT ![url] = [body |-> f.body, data |-> dl.data]]
    /\ UNCHANGED <<urls, saved, pc, cycle, result, agg, aggCycle, last, now, turl, snap>>

WriteFails == \E i \in Tasks, f \in Fetches, created \in BOOLEAN : SaveFails(i, f, created)

\* datetime.now() is the local wall clock: it is set back (time
\* synchronisation, an operator, the end of daylight saving time) while
\* asyncio.sleep counts on the monotonic clock.
ClockStep ==
    /\ now >= SleepSeconds
    /\ now' = now - SleepSeconds
    /\ UNCHANGED <<urls, last_checksums, saved, pc, cycle, task, result, outcome, got,
                   agg, aggCycle, ev, prev, last, files, turl, snap, gets, sets, firsts>>

NextEnv ==
    \/ Next
    \/ WriteFails
    \/ ClockStep

\* main() in an environment whose disk and clock can fail it.
SpecEnv == Init /\ [][NextEnv]_vars

\* ------------------------------------------------------------ properties

\* An evaluation has finished in this cycle (ev describes it).
Evaluated == ev.i # 0

\* download_file handed the body of a response to has_file_changed.
Delivered(f) == f.kind = "response" /\ ~raise_for_status(f.status)

\* The evaluation ev wrote exactly one artifact, holding the fetched bytes,
\* and nothing else was written.
WroteOne ==
    /\ saved[ev.url] = [n |-> ev.savedBefore[ev.url].n + 1, data |-> ev.data]
    /\ \A u \in Tracked \ {ev.url} : saved[u] = ev.savedBefore[u]

\* The evaluation ev wrote no artifact.
WroteNone == saved = ev.savedBefore

\* C1: the first evaluation of a URL to which download_file hands non-empty
\* bytes records the fingerprint of these bytes, writes exactly one artifact
\* and returns False (FirstSeen, never Changed), whatever failed or empty
\* fetches of the URL came before it.
C1_FirstSeen ==
    (Evaluated /\ ~ev.raised /\ ev.data # Empty /\ ev.prevData = None) =>
        /\ ev.outcome = "FirstSeen"
        /\ ev.ret = FALSE
        /\ ev.before[ev.url] = None
        /\ last_checksums[ev.url] = calculate_checksum(ev.data)
        /\ ev.savedBefore[ev.url].n = 0
        /\ WroteOne

\* C1 witness: a URL whose fetch failed or was empty in cycle 1 is seen for
\* the first time in cycle 2.
C1_Witness ==
    /\ Evaluated /\ cycle = 2 /\ ev.data # Empty /\ ev.prevData = None
    /\ last.outcome[ev.i] = "NotLoaded"
    /\ ev.outcome = "FirstSeen"

\* C2 as stated: whenever two consecutive successful fetches of a URL return
\* different content, the second evaluation returns True, stores the new
\* fingerprint and writes exactly one artifact.
C2_AsStated ==
    (Evaluated /\ Delivered(ev.fetch) /\ ev.prevBody # None
       /\ ev.fetch.body # ev.prevBody) =>
        /\ ev.outcome = "Changed"
        /\ ev.ret = TRUE
        /\ last_checksums[ev.url] = calculate_checksum(ev.fetch.body)
        /\ WroteOne

\* C2 amended: whenever two consecutive non-empty fetches of a URL return
\* contents with different fingerprints, the second evaluation returns True,
\* stores the new fingerprint and writes exactly one artifact.
C2_Changed ==
    (Evaluated /\ ~ev.raised /\ ev.data # Empty /\ ev.prevData # None
       /\ calculate_checksum(ev.data) # calculate_checksum(ev.prevData)) =>
        /\ ev.outcome = "Changed"
        /\ ev.ret = TRUE
        /\ last_checksums[ev.url] = calculate_checksum(ev.data)
        /\ last_checksums[ev.url] # ev.before[ev.url]
        /\ WroteOne

\* C2 witness: a second non-empty fetch with another fingerprint was evaluated.
C2_Witness ==
    /\ Evaluated /\ ev.data # Empty /\ ev.prevData # None
    /\ calculate_checksum(ev.data) # calculate_checksum(ev.prevData)
    /\ ev.ret = TRUE

\* C3: whenever two consecutive successful fetches of a URL return
\* byte-identical content (the previous body download_file delivered, or the
\* previous non-empty one, equals this one), the second evaluation returns
\* False, writes no artifact and leaves last_checksums as it was.
C3_Unchanged ==
    (Evaluated /\ Delivered(ev.fetch)
       /\ (ev.fetch.body = ev.prevBody \/ ev.fetch.body = ev.prevData)) =>
        /\ ev.outcome \in {"Unchanged", "NotLoaded"}
        /\ ev.ret = FALSE
        /\ WroteNone
        /\ last_checksums = ev.before

\* C3 witness: the same non-empty content was fetched twice in a row.
C3_Witness ==
    /\ Evaluated /\ Delivered(ev.fetch) /\ ev.fetch.body # Empty
    /\ ev.fetch.body = ev.prevBody
    /\ ev.outcome = "Unchanged"

\* The GET failed: no response, or a response with an error status.
FetchFailed(f) == f.kind \in NetErrors \/ (f.kind = "response" /\ raise_for_status(f.status))

\* C4: when the fetch of a source fails or returns zero bytes, the evaluation
\* returns False, writes no artifact and leaves last_checksums unchanged for
\* every URL.
C4_FailureIsUnchanged ==
    (Evaluated /\ (FetchFailed(ev.fetch) \/ ev.fetch.body = Empty)) =>
        /\ ~ev.raised
        /\ ev.ret = FALSE
        /\ WroteNone
        /\ last_checksums = ev.before
\* C5: a fetch failure of one source never aborts the cycle and never keeps
\* the evaluation of another source from running to completion.
C5_FanOutIsolation ==
    (\E i \in Tasks : outcome[i] \in {"NotLoaded", "Raised"}) =>
        /\ pc # "crashed"
        /\ \A j \in Tasks : task[j] # "cancelled"

\* C6: download_file never raises; it returns the body of a response whose
\* status is in 200..299 and the empty bytes for everything else.
C6_DownloadNeverRaises ==
    Evaluated =>
        /\ ~ev.raised
        /\ Is2xx(ev.fetch) => ev.data = ev.fetch.body
        /\ ~Is2xx(ev.fetch) => ev.data = Empty

\* C7: the polling loop has no terminal state: main() never stops, whatever
\* the fetches of a cycle ended with.
C7_LoopNeverStops == pc \in {"idle", "gather", "sleep"}

\* C8: the summary of a cycle is computed only after the evaluation of every
\* source of that cycle has finished.
C8_Barrier ==
    (cycle > 0 /\ aggCycle = cycle) =>
        \A i \in Tasks : task[i] = "done" /\ outcome[i] # "none"

\* C8 witness: a summary was computed in a cycle whose evaluations finished
\* in the reverse of the order they were started in.
C8_Witness == cycle > 0 /\ aggCycle = cycle /\ ev.i = 1 /\ N > 1

\* C9: every cycle that has ended printed its summary, and the summary says
\* "updated" exactly when an evaluation of that cycle returned Changed.
C9_AggregateIffChanged ==
    (cycle > 0 /\ pc \in {"sleep", "idle", "crashed"}) =>
        /\ aggCycle = cycle
        /\ agg = "updated" <=> \E i \in Tasks : outcome[i] = "Changed"

\* The scenario of C10 with source a changing and source b static: both
\* cycles have been joined and all four fetches were 2xx responses.
E2E(a, b) ==
    /\ N = 2 /\ a # b /\ urls[a] # urls[b]
    /\ cycle = 2 /\ aggCycle = 2 /\ last.joined
    /\ \A i \in {a, b} : last.got[i] # None /\ got[i] # None
    /\ got[a] # last.got[a]
    /\ got[b] = last.got[b]

\* What C10 expects of the two cycles.
E2EExpected(a, b) ==
    /\ last.outcome[a] = "FirstSeen" /\ last.outcome[b] = "FirstSeen"
    /\ last.nsaved = 2
    /\ last.agg = "nochange"
    /\ outcome[a] = "Changed" /\ outcome[b] = "Unchanged"
    /\ saved[urls[a]].n = 2 /\ saved[urls[b]].n = 1
    /\ agg = "updated"
    /\ Total(saved, Tracked) = 3

\* C10 as stated: two URLs whose fetches all succeed, the content of one
\* differing between cycle 1 and cycle 2, the other's being the same: cycle 1
\* is FirstSeen twice and "nothing changed", cycle 2 is Changed and Unchanged
\* and "updated", three artifacts in all.
C10_AsStated ==
    \A a, b \in Tasks : E2E(a, b) => E2EExpected(a, b)

\* C10 amended: the same, for fetches that all return non-empty content and
\* a changing source whose two contents have different fingerprints.
C10_EndToEnd ==
    \A a, b \in Tasks :
        (/\ E2E(a, b)
         /\ \A i \in {a, b} : last.got[i] # Empty /\ got[i] # Empty
         /\ calculate_checksum(got[a]) # calculate_checksum(last.got[a]))
        => E2EExpected(a, b)

\* C10 witness: the scenario has run to the end of cycle 2.
C10_Witness ==
    \E a, b \in Tasks :
        /\ E2E(a, b)
        /\ \A i \in {a, b} : last.got[i] # Empty /\ got[i] # Empty
        /\ calculate_checksum(got[a]) # calculate_checksum(last.got[a])
        /\ pc = "sleep"
\* C11: the fan-out of a cycle starts only after the join of the cycle before
\* it has completed: evaluations are in flight only while main() awaits the
\* gather of the current cycle, and all earlier cycles have printed their
\* summary by then.
C11_NoOverlap ==
    /\ (\E i \in Tasks : task[i] = "pending") => pc = "gather"
    /\ pc = "gather" => aggCycle = cycle - 1
    /\ pc \in {"sleep", "idle"} => aggCycle = cycle

\* C11 witness: in the second cycle one evaluation has finished and the other
\* is still waiting for its GET.
C11_Witness ==
    /\ cycle = 2 /\ pc = "gather"
    /\ \E i, j \in Tasks : task[i] = "pending" /\ task[j] = "done"

\* C12: last_checksums[url] is advanced only by an evaluation that also
\* completed the write of the artifact: every stored checksum is the checksum
\* of an artifact written for that URL, and an evaluation whose write failed
\* leaves last_checksums as it found it.
C12_AdvanceOnlyWithWrite ==
    /\ \A u \in Tracked :
          last_checksums[u] # None =>
              /\ saved[u].n > 0
              /\ calculate_checksum(saved[u].data) = last_checksums[u]
    /\ (Evaluated /\ ev.outcome = "SaveRaised") => last_checksums = ev.before

\* C13: the artifact writes of different sources never conflict: two distinct
\* tracked URLs that write in the same cycle, in the same clock second, write
\* files of different names, so no write replaces the file another URL wrote
\* in that cycle (ev.over is the file the last write replaced).
C13_NamesOfSourcesDiffer ==
    (Evaluated /\ ev.over # NoFile /\ ev.over.cycle = cycle) => ev.over.url = ev.url

\* C14: the artifact names of one source never collide across the cycles of
\* a run: a write for a URL never replaces a file written for that URL in an
\* earlier cycle.
C14_NamesOfCyclesDiffer ==
    (Evaluated /\ ev.over # NoFile /\ ev.over.url = ev.url) => ev.over.cycle = cycle

\* C15: an evaluation of a URL changes at most that URL's entry of
\* last_checksums: after it the entries of all other URLs are what they were
\* before it, the keys are the same, and no entry that held a checksum is
\* back at None, whichever task of the cycle ran first.
C15_Frame ==
    Evaluated =>
        /\ DOMAIN last_checksums = DOMAIN ev.before
        /\ DOMAIN last_checksums = Tracked
        /\ \A u \in Tracked : u # ev.url => last_checksums[u] = ev.before[u]
        /\ \A u \in Tracked : ev.before[u] # None => last_checksums[u] # None

\* The second task of the list ran before the first and changed its entry
\* while the other URL's entry already held a checksum.
C15_Witness ==
    /\ Evaluated
    /\ ev.i = 2
    /\ task[1] = "pending"
    /\ ev.outcome = "Changed"
    /\ last_checksums[ev.url] # ev.before[ev.url]
    /\ \E u \in Tracked : u # ev.url /\ last_checksums[u] # None

\* No URL is given twice in the list.
Distinct(us) == \A i, j \in 1..Len(us) : i # j => us[i] # us[j]

\* In a cycle no URL has two tasks, and a task issues one GET: none before it
\* is resumed, exactly one once it has finished.
OncePerCycle ==
    /\ \A i, j \in Tasks :
          (i # j /\ task[i] # "none" /\ task[j] # "none") => turl[i] # turl[j]
    /\ \A i \in Tasks :
          /\ gets[i] <= 1
          /\ task[i] \in {"done", "raised"} => gets[i] = 1
          /\ task[i] = "pending" => gets[i] = 0

\* C16 as stated: for every URL list ScheduleChecker accepts, each source is
\* evaluated at most once in a cycle, with exactly one GET and no retry, so
\* no two evaluations of one source are in flight together.
C16_AsStated == OncePerCycle

\* C16: for every URL list without a repeated URL, each source is evaluated
\* at most once in a cycle, with exactly one GET and no retry, so no two
\* evaluations of one source are in flight together.
C16_OncePerCycle == Distinct(urls) => OncePerCycle

\* Both tasks of a list of two different URLs have finished their second
\* cycle with one GET each.
C16_Witness ==
    /\ Distinct(urls)
    /\ N = 2
    /\ cycle = 2
    /\ \A i \in Tasks : task[i] = "done" /\ gets[i] = 1

\* An evaluation is Changed exactly when it got non-empty bytes, an earlier
\* evaluation of the URL got non-empty bytes too, and the checksums of the
\* two differ.
ChangedIffDiffersFromLast ==
    Evaluated =>
        /\ ev.outcome = "Changed" <=>
              /\ ev.data # Empty
              /\ ev.prevData # None
              /\ calculate_checksum(ev.data) # calculate_checksum(ev.prevData)
        /\ ev.ret <=> ev.outcome = "Changed"

\* The evaluation ev is the first one of its cycle to finish.
FirstOfCycle == Evaluated /\ \A j \in Tasks \ {ev.i} : task[j] = "pending"

\* The list names one URL twice, so that it is evaluated twice in a cycle.
Twice == N = 2 /\ urls[1] = urls[2]

\* C17: change detection looks only at the most recently recorded checksum
\* of the URL: an evaluation returns Changed exactly when its fetch is
\* non-empty, a checksum is stored and the new checksum differs from the one
\* of the last successful evaluation; contents X, Y, X give FirstSeen,
\* Changed, Changed, and X, a failed fetch, X give FirstSeen, Unchanged
\* (False, nothing recorded), Unchanged.
C17_LastFingerprintOnly ==
    /\ ChangedIffDiffersFromLast
    /\ (Twice /\ cycle = 2 /\ FirstOfCycle /\ ev.data = last.got[1]
          /\ last.outcome = <<"FirstSeen", "Changed">>) => ev.outcome = "Changed"
    /\ (Twice /\ cycle = 1 /\ Evaluated /\ ev.i = 2 /\ outcome[1] = "FirstSeen"
          /\ FetchFailed(ev.fetch)) => (ev.outcome = "NotLoaded" /\ ~ev.ret)
    /\ (Twice /\ cycle = 2 /\ FirstOfCycle /\ ev.data = last.got[1]
          /\ last.outcome = <<"FirstSeen", "NotLoaded">>) => ev.outcome = "Unchanged"

\* C18: while the writes of save_file succeed, the number of artifacts
\* written for a URL is the number of times its checksum was assigned (once
\* by the FirstSeen evaluation, once by every Changed one); it is zero exactly
\* while the checksum is None; and the stored checksum is the checksum of the
\* content of the artifact written last for the URL.
C18_ArtifactsMatchFingerprints ==
    \A u \in Tracked :
        /\ saved[u].n = sets[u]
        /\ sets[u] > 0 => firsts[u] = 1
        /\ sets[u] = 0 => firsts[u] = 0
        /\ saved[u].n = 0 <=> last_checksums[u] = None
        /\ saved[u].n > 0 => last_checksums[u] = calculate_checksum(saved[u].data)

\* One URL has its second artifact, written by a Changed evaluation, while
\* the other URL has none yet.
C18_Witness ==
    /\ Evaluated
    /\ ev.outcome = "Changed"
    /\ saved[ev.url].n = 2
    /\ sets[ev.url] = 2
    /\ \E u \in Tracked : saved[u].n = 0 /\ last_checksums[u] = None

\* C19: between the return of download_file and the end of has_file_changed
\* no other evaluation runs, so even with a URL listed twice and evaluated
\* twice at once no update is lost: at most one evaluation of a URL in the
\* whole run is FirstSeen, the stored checksum is always the one of the
\* non-empty content delivered last, and an evaluation that fetches the
\* content the evaluation before it fetched is Unchanged and writes nothing.
C19_AtomicEvaluation ==
    /\ \A u \in Tracked : firsts[u] <= 1
    /\ \A u \in Tracked :
          prev[u].data # None => last_checksums[u] = calculate_checksum(prev[u].data)
    /\ (Evaluated /\ ~ev.raised /\ ev.data # Empty /\ ev.data = ev.prevData) =>
          /\ ev.outcome = "Unchanged"
          /\ ~ev.ret
          /\ WroteNone
          /\ last_checksums = ev.before

\* The URL is listed twice; in the first cycle the second task was resumed
\* first and recorded the content, then the first task, created when no
\* checksum was stored, got the same content and found it unchanged.
C19_Witness ==
    /\ Twice
    /\ cycle = 1
    /\ ev.i = 1
    /\ snap[1] = None
    /\ got[1] = got[2]
    /\ outcome = <<"Unchanged", "FirstSeen">>
    /\ saved[ev.url].n = 1

====
